---- MODULE Spec2Model ----
(***************************************************************************)
(* A model of bevy_svg: the origin-correction systems (src/origin.rs,      *)
(* src/plugin.rs) run by the host's schedules, the path segment converter  *)
(* PathConvIter, the extraction of the path descriptors from a document    *)
(* tree (Svg::from_tree) and the tessellation of an image                  *)
(* (Svg::tessellate), all of src/svg.rs.                                   *)
(*                                                                         *)
(* Numbers.  Image sizes, scales and path points are whole numbers.        *)
(* Translations (Vec3) are kept in HALF units, so that the `* 0.5` of      *)
(* Origin::Center is exact: a translation of 25.0 is the integer 50.       *)
(***************************************************************************)
EXTENDS Integers, Sequences, FiniteSets, TLC

\* ------------------------------------------------------------------ bounds
\* The images of the asset store.
NumImages == 1

\* The largest scale factor the application sets on a Transform.
MaxScale == 2

\* The longest command sequence of a path.
MaxSegments == 4

\* The calls of next() that are followed after the first None.
MaxNone == 2

\* The most nodes of a document tree (below its root).
MaxNodes == 5

\* The most path descriptors of an image handed to the tessellators.
MaxDescriptors == 3

\* The systems treat every instance on its own: none reads a component of
\* another instance, so one instance shows all they do.
Entities == {"svg_a"}

Images == 1..NumImages

\* ----------------------------------------------------------------- values
Origins == {"BottomLeft", "BottomRight", "Center", "TopLeft", "TopRight"}

\* Origin::default()
DefaultOrigin == "TopLeft"

\* The whole number x, in half units.
ToHalves(x) == 2 * x

\* x * 0.5 for a whole number x, in half units.
HalfOf(x) == x

\* Vec3::ZERO
Vec3Zero == <<0, 0, 0>>

Vec3Add(a, b) == <<a[1] + b[1], a[2] + b[2], a[3] + b[3]>>

Vec3Sub(a, b) == <<a[1] - b[1], a[2] - b[2], a[3] - b[3]>>

\* Svg::size of the images the asset store can hold (whole units).
ImageSize(i) == IF i = 1 THEN <<100, 50>> ELSE <<4 * i, 6 * i>>

\* The local translations (half units) and scales the application sets.
Translations == {<<0, 0, 0>>, <<14, -6, 2>>}

Scales == {<<k, 2 * k - 1>> : k \in 1..MaxScale}

\* compute_translation with the `* 0.5` of Center left out.
compute_translation_unhalved(o, scaled_size) ==
    CASE o = "BottomLeft" -> <<0, ToHalves(scaled_size[2]), 0>>
      [] o = "BottomRight" -> <<-ToHalves(scaled_size[1]), ToHalves(scaled_size[2]), 0>>
      [] o = "Center" -> <<-ToHalves(scaled_size[1]), ToHalves(scaled_size[2]), 0>>
      [] o = "TopLeft" -> Vec3Zero
      [] o = "TopRight" -> <<-ToHalves(scaled_size[1]), 0, 0>>

\* Origin::compute_translation; the result is in half units.
compute_translation(o, scaled_size) ==
    CASE o = "BottomLeft" -> <<0, ToHalves(scaled_size[2]), 0>>
      [] o = "BottomRight" -> <<-ToHalves(scaled_size[1]), ToHalves(scaled_size[2]), 0>>
      [] o = "Center" -> <<HalfOf(-scaled_size[1]), HalfOf(scaled_size[2]), 0>>
      [] o = "TopLeft" -> Vec3Zero
      [] o = "TopRight" -> <<-ToHalves(scaled_size[1]), 0, 0>>

\* ------------------------------------------------------------------ state
VARIABLES
    alive,              \* the entities spawned with the Svg bundle
    svg,                \* Svg2d.0: the image handle of the entity
    origin,             \* the Origin component
    origin_state,       \* OriginState.previous, or NoState
    translation,        \* Transform.translation (half units)
    scale,              \* Transform.scale.xy
    global_translation, \* GlobalTransform's translation (half units)
    mesh,               \* the mesh slot: NoMesh or the mesh of an image
    material,           \* the material slot: the image the material binds
    changed,            \* change detection, per reading system
    loaded,             \* Assets<Svg>: the images svgs.get() finds
    svg_events,         \* AssetEvent<Svg> not yet read by svg_mesh_linker
    ran,                \* the systems that already ran in this tick
    taken               \* what the last run of apply_origin saw of each entity

ecs_vars == <<alive, svg, origin, origin_state, translation, scale,
              global_translation, mesh, material, changed, loaded,
              svg_events, ran, taken>>

\* PathConvIter and the usvg::Path it was made from.
VARIABLES
    segments,           \* self.data().segments(): the commands of the path
    abs_transform,      \* <<sx, sy>> of the path's abs_transform()
    constructed,        \* whether convert() has made the iterator
    iter,               \* the number of commands the iterator has consumed
    prev,
    first,
    needs_end,
    deferred,
    conv_scale,         \* PathConvIter.scale: the factors <<x, y>>
    events,             \* the events next() has returned, in order
    nones               \* the number of times next() has returned None

path_vars == <<segments, abs_transform, constructed, iter, prev, first,
               needs_end, deferred, conv_scale, events, nones>>

\* The document a loader parsed, the image made of it and its mesh buffer.
VARIABLES
    tree,               \* the usvg::Tree given to from_tree, or NoTree
    image,              \* the Svg: from_tree's result, tessellate's self
    buffer,             \* what generate_buffer returned to tessellate
    tessellated         \* what tessellate returned to its caller

doc_vars == <<tree, image, buffer, tessellated>>

vars == <<ecs_vars, path_vars, doc_vars>>

NoState == "NoState"
NoMesh == 0

\* Nothing changed since the reading systems last ran.
Unchanged == [origin |-> FALSE, transform |-> FALSE, mesh |-> FALSE,
              propagate |-> FALSE, svg |-> FALSE]

\* A component that was just inserted counts as changed for every reader.
AllChanged == [origin |-> TRUE, transform |-> TRUE, mesh |-> TRUE,
               propagate |-> TRUE, svg |-> TRUE]

\* apply_origin has not visited the instance.
NotVisited == [branch |-> "none", origin |-> FALSE, transform |-> FALSE, mesh |-> FALSE]

PostUpdateSystems == {"add_origin_state", "propagate"}
LastSystems == {"apply_origin", "svg_mesh_linker"}

\* The tick is over when the last of its systems has run.
AfterRun(s) == IF ran \cup {s} = PostUpdateSystems \cup LastSystems THEN {} ELSE ran \cup {s}

\* Point::new(0.0, 0.0)
PointZero == <<0, 0>>

\* Option::None of a PathEvent.
NoEvent == [type |-> "None"]

\* No path is being converted.
NoPath ==
    /\ segments = <<>>
    /\ abs_transform = <<1, 1>>
    /\ constructed = FALSE
    /\ iter = 0
    /\ prev = PointZero
    /\ first = PointZero
    /\ needs_end = FALSE
    /\ deferred = NoEvent
    /\ conv_scale = <<1, 1>>
    /\ events = <<>>
    /\ nones = 0

NoTree == [none |-> "tree"]
NoImage == [none |-> "image"]
NoBuffer == [none |-> "buffer"]
NotTessellated == [none |-> "mesh"]

\* No document is being loaded.
NoDocument ==
    /\ tree = NoTree
    /\ image = NoImage
    /\ buffer = NoBuffer
    /\ tessellated = NotTessellated

Init ==
    /\ alive = [e \in Entities |-> FALSE]
    /\ svg = [e \in Entities |-> 1]
    /\ origin = [e \in Entities |-> DefaultOrigin]
    /\ origin_state = [e \in Entities |-> NoState]
    /\ translation = [e \in Entities |-> Vec3Zero]
    /\ scale = [e \in Entities |-> <<1, 1>>]
    /\ global_translation = [e \in Entities |-> Vec3Zero]
    /\ mesh = [e \in Entities |-> NoMesh]
    /\ material = [e \in Entities |-> 1]
    /\ changed = [e \in Entities |-> Unchanged]
    /\ loaded = [i \in Images |-> FALSE]
    /\ svg_events = {}
    /\ ran = {}
    /\ taken = [e \in Entities |-> NotVisited]
    /\ NoPath
    /\ NoDocument

\* ---------------------------------------------- the application (Update)
\* commands.spawn(Svg2dBundle { svg, origin, transform, ..default() }):
\* the mesh slot and the GlobalTransform are the defaults, the on_insert
\* hook of Svg2d inserts the material of the handle.
Spawn(e, h, o, t, s) ==
    /\ ran = {}
    /\ ~alive[e]
    /\ alive' = [alive EXCEPT ![e] = TRUE]
    /\ svg' = [svg EXCEPT ![e] = h]
    /\ origin' = [origin EXCEPT ![e] = o]
    /\ origin_state' = [origin_state EXCEPT ![e] = NoState]
    /\ translation' = [translation EXCEPT ![e] = t]
    /\ scale' = [scale EXCEPT ![e] = s]
    /\ global_translation' = [global_translation EXCEPT ![e] = Vec3Zero]
    /\ mesh' = [mesh EXCEPT ![e] = NoMesh]
    /\ material' = [material EXCEPT ![e] = h]
    /\ changed' = [changed EXCEPT ![e] = AllChanged]
    /\ taken' = [taken EXCEPT ![e] = NotVisited]
    /\ UNCHANGED <<path_vars, doc_vars, loaded, svg_events, ran>>

\* The application writes the Origin of an instance (possibly the value it has).
SetOrigin(e, o) ==
    /\ ran = {}
    /\ alive[e]
    /\ origin' = [origin EXCEPT ![e] = o]
    /\ changed' = [changed EXCEPT ![e].origin = TRUE]
    /\ UNCHANGED <<path_vars, doc_vars, alive, svg, origin_state, translation, scale, global_translation,
                   mesh, material, loaded, svg_events, ran, taken>>

\* The application writes the Transform of an instance.
SetTransform(e, t, s) ==
    /\ ran = {}
    /\ alive[e]
    /\ translation' = [translation EXCEPT ![e] = t]
    /\ scale' = [scale EXCEPT ![e] = s]
    /\ changed' = [changed EXCEPT ![e].transform = TRUE, ![e].propagate = TRUE]
    /\ UNCHANGED <<path_vars, doc_vars, alive, svg, origin, origin_state, global_translation,
                   mesh, material, loaded, svg_events, ran, taken>>

\* The asset store finishes loading an image: svgs.get() finds it from now on
\* and AssetEvent::Added is sent.
LoadImage(i) ==
    /\ ran = {}
    /\ ~loaded[i]
    /\ loaded' = [loaded EXCEPT ![i] = TRUE]
    /\ svg_events' = svg_events \cup {i}
    /\ UNCHANGED <<path_vars, doc_vars, alive, svg, origin, origin_state, translation, scale,
                   global_translation, mesh, material, changed, ran, taken>>

\* ------------------------------------------------------------ PostUpdate
\* add_origin_state inserting the live Origin of the instance.
add_origin_state_live ==
    /\ "add_origin_state" \notin ran
    /\ origin_state' = [e \in Entities |->
            IF alive[e] /\ origin_state[e] = NoState THEN origin[e]
            ELSE origin_state[e]]
    /\ ran' = AfterRun("add_origin_state")
    /\ UNCHANGED <<path_vars, doc_vars, alive, svg, origin, translation, scale, global_translation,
                   mesh, material, changed, loaded, svg_events, taken>>

\* origin::add_origin_state: Query<Entity, (With<C>, With<Mesh>, Without<OriginState>)>
add_origin_state ==
    /\ "add_origin_state" \notin ran
    /\ origin_state' = [e \in Entities |->
            IF alive[e] /\ origin_state[e] = NoState THEN DefaultOrigin
            ELSE origin_state[e]]
    /\ ran' = AfterRun("add_origin_state")
    /\ UNCHANGED <<path_vars, doc_vars, alive, svg, origin, translation, scale, global_translation,
                   mesh, material, changed, loaded, svg_events, taken>>

\* The host's transform propagation: the GlobalTransform of an instance is
\* recomputed from its Transform when the Transform changed (or was added).
propagate ==
    /\ "propagate" \notin ran
    /\ global_translation' = [e \in Entities |->
            IF alive[e] /\ changed[e].propagate THEN translation[e]
            ELSE global_translation[e]]
    /\ changed' = [e \in Entities |-> [changed[e] EXCEPT !.propagate = FALSE]]
    /\ ran' = AfterRun("propagate")
    /\ UNCHANGED <<path_vars, doc_vars, alive, svg, origin, origin_state, translation, scale,
                   mesh, material, loaded, svg_events, taken>>

\* ------------------------------------------------------------------ Last
\* svgs.get(handle) replaced by a lookup that always finds an image.
SvgsGetAlways(h) == TRUE

\* svgs.get(handle)
SvgsGet(h) == loaded[h]

\* svg.size * transform.scale.xy()
ScaledSize(e) == <<ImageSize(svg[e])[1] * scale[e][1], ImageSize(svg[e])[2] * scale[e][2]>>

\* The query filter without Changed<C::MeshComponent>.
VisitedNoMesh(e) ==
    /\ alive[e]
    /\ origin_state[e] # NoState
    /\ changed[e].origin \/ changed[e].transform

\* The query filter of apply_origin.
Visited(e) ==
    /\ alive[e]
    /\ origin_state[e] # NoState
    /\ changed[e].origin \/ changed[e].transform \/ changed[e].mesh

\* The loop body with `else` in place of `else if transform.is_changed()`.
BranchAlwaysReapply(e) ==
    IF ~(/\ alive[e]
         /\ origin_state[e] # NoState
         /\ changed[e].origin \/ changed[e].transform \/ changed[e].mesh) THEN "none"
    ELSE IF ~loaded[svg[e]] THEN "unloaded"
    ELSE IF origin_state[e] # origin[e] THEN "origin"
    ELSE "transform"

\* The branch of the loop body of apply_origin an instance takes.
Branch(e) ==
    IF ~Visited(e) THEN "none"
    ELSE IF ~SvgsGet(svg[e]) THEN "unloaded"
    ELSE IF origin_state[e] # origin[e] THEN "origin"
    ELSE IF changed[e].transform THEN "transform"
    ELSE "unchanged"

\* The correction without the reverse translation of the previous Origin.
CorrectionForwardOnly(e) ==
    CASE Branch(e) \in {"origin", "transform"} -> compute_translation(origin[e], ScaledSize(e))
      [] OTHER -> Vec3Zero

\* The correction with `=` in place of `+=` in the Transform branch.
CorrectionAssigned(e) ==
    CASE Branch(e) = "origin" ->
            Vec3Sub(compute_translation(origin[e], ScaledSize(e)),
                    compute_translation(origin_state[e], ScaledSize(e)))
      [] Branch(e) = "transform" ->
            Vec3Sub(compute_translation(origin[e], ScaledSize(e)), global_translation[e])
      [] OTHER -> Vec3Zero

\* The translation apply_origin adds to the GlobalTransform.
Correction(e) ==
    CASE Branch(e) = "origin" ->
            Vec3Sub(compute_translation(origin[e], ScaledSize(e)),
                    compute_translation(origin_state[e], ScaledSize(e)))
      [] Branch(e) = "transform" -> compute_translation(origin[e], ScaledSize(e))
      [] OTHER -> Vec3Zero

\* The loop body without `origin_state.previous = origin.clone()`.
NewPreviousKept(e) == origin_state[e]

\* OriginState.previous after the loop body.
NewPrevious(e) == IF Branch(e) = "origin" THEN origin[e] ELSE origin_state[e]

\* origin::apply_origin
apply_origin ==
    /\ PostUpdateSystems \subseteq ran
    /\ "apply_origin" \notin ran
    /\ global_translation' = [e \in Entities |->
            Vec3Add(global_translation[e], Correction(e))]
    /\ origin_state' = [e \in Entities |-> NewPrevious(e)]
    /\ taken' = [e \in Entities |->
            [branch |-> Branch(e), origin |-> changed[e].origin,
             transform |-> changed[e].transform, mesh |-> changed[e].mesh]]
    /\ changed' = [e \in Entities |->
            [changed[e] EXCEPT !.origin = FALSE, !.transform = FALSE, !.mesh = FALSE]]
    /\ ran' = AfterRun("apply_origin")
    /\ UNCHANGED <<path_vars, doc_vars, alive, svg, origin, translation, scale, mesh, material,
                   loaded, svg_events>>

\* The instances whose mesh svg_mesh_linker sets.
Linked(e) == alive[e] /\ svg[e] \in svg_events /\ SvgsGet(svg[e])

\* plugin::svg_mesh_linker
svg_mesh_linker ==
    /\ PostUpdateSystems \subseteq ran
    /\ "svg_mesh_linker" \notin ran
    /\ material' = [e \in Entities |->
            IF alive[e] /\ changed[e].svg THEN svg[e] ELSE material[e]]
    /\ mesh' = [e \in Entities |-> IF Linked(e) THEN svg[e] ELSE mesh[e]]
    /\ changed' = [e \in Entities |->
            [changed[e] EXCEPT !.svg = FALSE,
                               !.mesh = IF Linked(e) THEN TRUE ELSE changed[e].mesh]]
    /\ svg_events' = {}
    /\ ran' = AfterRun("svg_mesh_linker")
    /\ UNCHANGED <<path_vars, doc_vars, alive, svg, origin, origin_state, translation, scale,
                   global_translation, loaded, taken>>

Next ==
    \/ \E e \in Entities, h \in Images, o \in Origins, t \in Translations, s \in Scales :
            Spawn(e, h, o, t, s)
    \/ \E e \in Entities, o \in Origins : SetOrigin(e, o)
    \/ \E e \in Entities, t \in Translations, s \in Scales : SetTransform(e, t, s)
    \/ \E i \in Images : LoadImage(i)
    \/ add_origin_state
    \/ propagate
    \/ apply_origin
    \/ svg_mesh_linker

Spec == Init /\ [][Next]_vars

\* ------------------------------------------- claims: origin correction
\* The instances with an OriginState record (state Tracking).
Tracking(e) == alive[e] /\ origin_state[e] # NoState

\* A step of apply_origin.
ApplyOriginRuns == "apply_origin" \notin ran /\ ran' = AfterRun("apply_origin")

\* The instance matches the query filter of apply_origin.
Matched(e) == Tracking(e) /\ (changed[e].origin \/ changed[e].transform \/ changed[e].mesh)

\* The offsets of the five origins for a size, in half units.
OffsetTable(o, size) ==
    CASE o = "TopLeft" -> <<0, 0, 0>>
      [] o = "TopRight" -> <<-(2 * size[1]), 0, 0>>
      [] o = "BottomLeft" -> <<0, 2 * size[2], 0>>
      [] o = "BottomRight" -> <<-(2 * size[1]), 2 * size[2], 0>>
      [] o = "Center" -> <<-size[1], size[2], 0>>

\* (-50, 25, 0) in half units.
ExampleStep == <<-100, 50, 0>>

\* C1: a visited instance with a loaded image whose Origin differs from the
\* tracked one gets compute_translation(new) - compute_translation(previous)
\* added to its world translation and the tracked Origin becomes the new one;
\* for the scaled size (100, 50), TopLeft -> Center and Center -> BottomRight
\* each add (-50, 25, 0).
C1_OriginChange ==
    [][ApplyOriginRuns =>
        \A e \in Entities :
            (Matched(e) /\ loaded[svg[e]] /\ origin_state[e] # origin[e]) =>
                /\ global_translation'[e] =
                        Vec3Add(global_translation[e],
                                Vec3Sub(compute_translation(origin[e], ScaledSize(e)),
                                        compute_translation(origin_state[e], ScaledSize(e))))
                /\ origin_state'[e] = origin[e]
                /\ (/\ ScaledSize(e) = <<100, 50>>
                    /\ <<origin_state[e], origin[e]>> \in
                            {<<"TopLeft", "Center">>, <<"Center", "BottomRight">>})
                        => global_translation'[e] = Vec3Add(global_translation[e], ExampleStep)]_vars

\* C1 happens: Center was applied after TopLeft and BottomRight after Center,
\* at the scaled size (100, 50), and the world translation moved by
\* 2 * (-50, 25, 0).
C1_Witness ==
    \E e \in Entities :
        /\ taken[e].branch = "origin"
        /\ origin_state[e] = "BottomRight"
        /\ ScaledSize(e) = <<100, 50>>
        /\ ~changed[e].transform
        /\ global_translation[e] = Vec3Add(translation[e], <<-200, 100, 0>>)

\* C2: after every run of apply_origin, a Tracking instance whose image is
\* loaded (and whose Added event the linker has read) has
\* world translation = local translation + compute_translation(Origin, scaled size).
C2_Positioned ==
    [][ApplyOriginRuns =>
        \A e \in Entities :
            (Tracking(e) /\ loaded[svg[e]] /\ svg[e] \notin svg_events) =>
                global_translation'[e] =
                    Vec3Add(translation[e], compute_translation(origin[e], ScaledSize(e)))]_vars

\* C3: compute_translation is the table of the five origins, with z = 0, for
\* the scaled size of every instance.
C3_Table ==
    \A e \in Entities, o \in Origins :
        /\ compute_translation(o, ScaledSize(e)) = OffsetTable(o, ScaledSize(e))
        /\ compute_translation(o, ScaledSize(e))[3] = 0

\* C3 happens: the offset of Center was added for an image of size (100, 50)
\* scaled by (2, 3).
C3_Witness ==
    \E e \in Entities :
        /\ taken[e].branch = "origin"
        /\ origin_state[e] = "Center"
        /\ scale[e] = <<2, 3>>
        /\ ~changed[e].transform
        /\ global_translation[e] = Vec3Add(translation[e], <<-200, 150, 0>>)

\* C4: once the Origin of an instance is applied (tracked = live), no step
\* changes its world translation or its tracked Origin as long as the value
\* of the Origin, the Transform and the mesh slot did not change; writing the
\* same Origin again adds nothing.
C4_Idempotent ==
    [][\A e \in Entities :
            (/\ Tracking(e)
             /\ origin_state[e] = origin[e]
             /\ origin'[e] = origin[e]
             /\ ~changed[e].transform
             /\ ~changed[e].propagate
             /\ ~changed[e].mesh) =>
                /\ global_translation'[e] = global_translation[e]
                /\ origin_state'[e] = origin_state[e]]_vars

\* C4 happens: apply_origin visited an instance whose Origin (not TopLeft) was
\* already applied, and its offset is in the world translation once.
C4_Witness ==
    \E e \in Entities :
        /\ taken[e] = [branch |-> "unchanged", origin |-> TRUE, transform |-> FALSE, mesh |-> FALSE]
        /\ origin[e] = "Center"
        /\ origin_state[e] = "Center"
        /\ ~changed[e].transform
        /\ global_translation[e] =
                Vec3Add(translation[e], OffsetTable("Center", ScaledSize(e)))

\* C5: apply_origin leaves the tracked Origin and the world translation of an
\* instance whose image is not loaded as they are.
C5_UnloadedSkipped ==
    [][ApplyOriginRuns =>
        \A e \in Entities :
            (alive[e] /\ ~loaded[svg[e]]) =>
                /\ global_translation'[e] = global_translation[e]
                /\ origin_state'[e] = origin_state[e]]_vars

\* C5 happens: apply_origin visited an instance with a changed Origin and
\* Transform whose image is not loaded, and the tracked Origin still differs.
C5_Witness ==
    \E e \in Entities :
        /\ taken[e].branch = "unloaded"
        /\ ~loaded[svg[e]]
        /\ origin[e] = "BottomRight"
        /\ origin_state[e] = DefaultOrigin
        /\ global_translation[e] = translation[e]
        /\ translation[e] # Vec3Zero
        /\ changed[e] = Unchanged

\* Nothing the systems have yet to read is pending for the instance.
Quiet(e) ==
    /\ svg[e] \notin svg_events
    /\ ~changed[e].origin
    /\ ~changed[e].transform
    /\ ~changed[e].mesh

\* C6: an instance that was skipped while its image was not loaded is
\* corrected after the load: once the linker has read the Added event and
\* apply_origin has run on the mesh change, tracked Origin = live Origin; and
\* the run that visits the instance for the mesh change alone adds the
\* correction of the live Origin once.
C6_Retried ==
    /\ [](\A e \in Entities :
            (Tracking(e) /\ loaded[svg[e]] /\ Quiet(e)) => origin_state[e] = origin[e])
    /\ [][ApplyOriginRuns =>
            \A e \in Entities :
                (/\ Tracking(e)
                 /\ loaded[svg[e]]
                 /\ changed[e].mesh
                 /\ ~changed[e].origin
                 /\ ~changed[e].transform
                 /\ origin_state[e] # origin[e]) =>
                    /\ origin_state'[e] = origin[e]
                    /\ global_translation'[e] =
                            Vec3Add(global_translation[e],
                                    Vec3Sub(OffsetTable(origin[e], ScaledSize(e)),
                                            OffsetTable(origin_state[e], ScaledSize(e))))]_vars

\* C6 happens: the instance was skipped while unloaded, the image was loaded
\* and linked without a write of the application, and apply_origin applied the
\* Origin on the mesh change: the offset is in the world translation once.
C6_Witness ==
    \E e \in Entities :
        /\ taken[e] = [branch |-> "origin", origin |-> FALSE, transform |-> FALSE, mesh |-> TRUE]
        /\ mesh[e] = svg[e]
        /\ Quiet(e)
        /\ origin[e] = "TopRight"
        /\ origin_state[e] = "TopRight"
        /\ global_translation[e] =
                Vec3Add(translation[e], OffsetTable("TopRight", ScaledSize(e)))

\* ------------------------------------------------------- PathConvIter
\* The points of the commands; the control points differ from every end point.
Points == {<<1, 2>>, <<3, -1>>}

Ctrl1 == <<5, 7>>

Ctrl2 == <<-4, 6>>

\* tiny_skia_path::PathSegment
MoveTo(p) == [cmd |-> "MoveTo", p |-> p]

LineTo(p) == [cmd |-> "LineTo", p |-> p]

QuadTo(c, p) == [cmd |-> "QuadTo", ctrl |-> c, p |-> p]

CubicTo(c1, c2, p) == [cmd |-> "CubicTo", ctrl1 |-> c1, ctrl2 |-> c2, p |-> p]

Close == [cmd |-> "Close"]

PathSegments ==
    {MoveTo(p) : p \in Points} \cup {LineTo(p) : p \in Points}
        \cup {QuadTo(Ctrl1, p) : p \in Points}
        \cup {CubicTo(Ctrl1, Ctrl2, p) : p \in Points} \cup {Close}

\* The command sequences of at most n commands.
RECURSIVE SegmentSeqs(_)
SegmentSeqs(n) ==
    IF n = 0 THEN {<<>>}
    ELSE LET shorter == SegmentSeqs(n - 1)
         IN shorter \cup {Append(q, c) : q \in {r \in shorter : Len(r) = n - 1}, c \in PathSegments}

\* The scale factors sx and sy of the absolute transforms of the paths.
AbsTransforms == {<<sx, sy>> : sx \in {-2, 3}, sy \in {-1, 0}}

\* lyon_path::PathEvent
Begin(at) == [type |-> "Begin", at |-> at]

Line(from, to) == [type |-> "Line", from |-> from, to |-> to]

Quadratic(from, ctrl, to) == [type |-> "Quadratic", from |-> from, ctrl |-> ctrl, to |-> to]

Cubic(from, ctrl1, ctrl2, to) ==
    [type |-> "Cubic", from |-> from, ctrl1 |-> ctrl1, ctrl2 |-> ctrl2, to |-> to]

End(last, fst, close) == [type |-> "End", last |-> last, first |-> fst, close |-> close]

\* Transform2D::scale(x, y) applied to a point.
TransformPoint(p, sc) == <<p[1] * sc[1], p[2] * sc[2]>>

\* PathEvent::transformed
transformed(ev, sc) ==
    CASE ev.type = "Begin" -> Begin(TransformPoint(ev.at, sc))
      [] ev.type = "Line" -> Line(TransformPoint(ev.from, sc), TransformPoint(ev.to, sc))
      [] ev.type = "Quadratic" ->
            Quadratic(TransformPoint(ev.from, sc), TransformPoint(ev.ctrl, sc),
                      TransformPoint(ev.to, sc))
      [] ev.type = "Cubic" ->
            Cubic(TransformPoint(ev.from, sc), TransformPoint(ev.ctrl1, sc),
                  TransformPoint(ev.ctrl2, sc), TransformPoint(ev.to, sc))
      [] ev.type = "End" ->
            End(TransformPoint(ev.last, sc), TransformPoint(ev.first, sc), ev.close)

\* return_event.map(|event| event.transformed(&self.scale))
MapTransformed(ev) == IF ev = NoEvent THEN NoEvent ELSE transformed(ev, conv_scale)

\* The factor convert() chooses for an axis of the absolute transform.
ScaleFactor(s) == IF s < 0 THEN -1 ELSE 1

\* self.iter.next(): the next command, or None at the end of the path.
IterNext == IF iter < Len(segments) THEN segments[iter + 1] ELSE [cmd |-> "None"]

\* The match of next() with the None arm leaving needs_end set.
MatchKeepsNeedsEnd(seg) ==
    CASE seg.cmd = "MoveTo" ->
            IF needs_end
            THEN [prev |-> seg.p, first |-> seg.p, needs_end |-> FALSE,
                  deferred |-> Begin(seg.p), return_event |-> End(prev, first, FALSE)]
            ELSE [prev |-> prev, first |-> seg.p, needs_end |-> needs_end,
                  deferred |-> deferred, return_event |-> Begin(seg.p)]
      [] seg.cmd = "LineTo" ->
            [prev |-> seg.p, first |-> first, needs_end |-> TRUE,
             deferred |-> deferred, return_event |-> Line(prev, seg.p)]
      [] seg.cmd = "QuadTo" ->
            [prev |-> seg.p, first |-> first, needs_end |-> TRUE,
             deferred |-> deferred, return_event |-> Quadratic(prev, seg.p, seg.p)]
      [] seg.cmd = "CubicTo" ->
            [prev |-> seg.p, first |-> first, needs_end |-> TRUE,
             deferred |-> deferred,
             return_event |-> Cubic(prev, seg.ctrl1, seg.ctrl2, seg.p)]
      [] seg.cmd = "Close" ->
            [prev |-> first, first |-> first, needs_end |-> FALSE,
             deferred |-> deferred, return_event |-> End(first, first, TRUE)]
      [] seg.cmd = "None" ->
            [prev |-> prev, first |-> first, needs_end |-> needs_end,
             deferred |-> deferred,
             return_event |-> IF needs_end THEN End(prev, first, FALSE) ELSE NoEvent]

\* The match of next() deferring the Begin of every MoveTo, open subpath or
\* not.
MatchAlwaysDefers(seg) ==
    CASE seg.cmd = "MoveTo" ->
            [prev |-> seg.p, first |-> seg.p, needs_end |-> FALSE,
             deferred |-> Begin(seg.p), return_event |-> End(prev, first, FALSE)]
      [] seg.cmd = "LineTo" ->
            [prev |-> seg.p, first |-> first, needs_end |-> TRUE,
             deferred |-> deferred, return_event |-> Line(prev, seg.p)]
      [] seg.cmd = "QuadTo" ->
            [prev |-> seg.p, first |-> first, needs_end |-> TRUE,
             deferred |-> deferred, return_event |-> Quadratic(prev, seg.p, seg.p)]
      [] seg.cmd = "CubicTo" ->
            [prev |-> seg.p, first |-> first, needs_end |-> TRUE,
             deferred |-> deferred,
             return_event |-> Cubic(prev, seg.ctrl1, seg.ctrl2, seg.p)]
      [] seg.cmd = "Close" ->
            [prev |-> first, first |-> first, needs_end |-> FALSE,
             deferred |-> deferred, return_event |-> End(first, first, TRUE)]
      [] seg.cmd = "None" ->
            [prev |-> prev, first |-> first, needs_end |-> FALSE,
             deferred |-> deferred,
             return_event |-> IF needs_end THEN End(prev, first, FALSE) ELSE NoEvent]

\* The match of next() on the command: the fields of the iterator after it and
\* return_event.
Match(seg) ==
    CASE seg.cmd = "MoveTo" ->
            IF needs_end
            THEN [prev |-> seg.p, first |-> seg.p, needs_end |-> FALSE,
                  deferred |-> Begin(seg.p), return_event |-> End(prev, first, FALSE)]
            ELSE [prev |-> prev, first |-> seg.p, needs_end |-> needs_end,
                  deferred |-> deferred, return_event |-> Begin(seg.p)]
      [] seg.cmd = "LineTo" ->
            [prev |-> seg.p, first |-> first, needs_end |-> TRUE,
             deferred |-> deferred, return_event |-> Line(prev, seg.p)]
      [] seg.cmd = "QuadTo" ->
            [prev |-> seg.p, first |-> first, needs_end |-> TRUE,
             deferred |-> deferred, return_event |-> Quadratic(prev, seg.p, seg.p)]
      [] seg.cmd = "CubicTo" ->
            [prev |-> seg.p, first |-> first, needs_end |-> TRUE,
             deferred |-> deferred,
             return_event |-> Cubic(prev, seg.ctrl1, seg.ctrl2, seg.p)]
      [] seg.cmd = "Close" ->
            [prev |-> first, first |-> first, needs_end |-> FALSE,
             deferred |-> deferred, return_event |-> End(first, first, TRUE)]
      [] seg.cmd = "None" ->
            [prev |-> prev, first |-> first, needs_end |-> FALSE,
             deferred |-> deferred,
             return_event |-> IF needs_end THEN End(prev, first, FALSE) ELSE NoEvent]

\* What a call of next() returns: the deferred event as it is, or the
\* transformed return_event.
Returned == IF deferred # NoEvent THEN deferred ELSE MapTransformed(Match(IterNext).return_event)

\* A usvg::Path: its commands and its absolute transform.
ConvInit ==
    /\ alive = [e \in Entities |-> FALSE]
    /\ svg = [e \in Entities |-> 1]
    /\ origin = [e \in Entities |-> DefaultOrigin]
    /\ origin_state = [e \in Entities |-> NoState]
    /\ translation = [e \in Entities |-> Vec3Zero]
    /\ scale = [e \in Entities |-> <<1, 1>>]
    /\ global_translation = [e \in Entities |-> Vec3Zero]
    /\ mesh = [e \in Entities |-> NoMesh]
    /\ material = [e \in Entities |-> 1]
    /\ changed = [e \in Entities |-> Unchanged]
    /\ loaded = [i \in Images |-> FALSE]
    /\ svg_events = {}
    /\ ran = {}
    /\ taken = [e \in Entities |-> NotVisited]
    /\ segments \in SegmentSeqs(MaxSegments)
    /\ abs_transform \in AbsTransforms
    /\ constructed = FALSE
    /\ iter = 0
    /\ prev = PointZero
    /\ first = PointZero
    /\ needs_end = FALSE
    /\ deferred = NoEvent
    /\ conv_scale = <<1, 1>>
    /\ events = <<>>
    /\ nones = 0
    /\ NoDocument

\* <&usvg::Path as Convert<PathConvIter>>::convert
convert ==
    /\ ~constructed
    /\ constructed' = TRUE
    /\ iter' = 0
    /\ first' = PointZero
    /\ prev' = PointZero
    /\ deferred' = NoEvent
    /\ needs_end' = FALSE
    /\ conv_scale' = <<ScaleFactor(abs_transform[1]), ScaleFactor(abs_transform[2])>>
    /\ UNCHANGED <<ecs_vars, doc_vars, segments, abs_transform, events, nones>>

\* PathConvIter::next
next ==
    /\ constructed
    /\ nones < MaxNone
    /\ LET ret == Returned
           m == Match(IterNext)
       IN /\ IF deferred # NoEvent
             THEN /\ deferred' = NoEvent
                  /\ UNCHANGED <<iter, prev, first, needs_end>>
             ELSE /\ iter' = IF iter < Len(segments) THEN iter + 1 ELSE iter
                  /\ prev' = m.prev
                  /\ first' = m.first
                  /\ needs_end' = m.needs_end
                  /\ deferred' = m.deferred
          /\ events' = IF ret = NoEvent THEN events ELSE Append(events, ret)
          /\ nones' = IF ret = NoEvent THEN nones + 1 ELSE nones
    /\ UNCHANGED <<ecs_vars, doc_vars, segments, abs_transform, constructed, conv_scale>>

ConvNext == convert \/ next

ConvSpec == ConvInit /\ [][ConvNext]_vars

\* --------------------------------------------- claims: PathConvIter
\* The number of Close commands among the first n commands.
RECURSIVE NumClose(_)
NumClose(n) ==
    IF n = 0 THEN 0
    ELSE NumClose(n - 1) + (IF segments[n].cmd = "Close" THEN 1 ELSE 0)

\* The number of End events with close = true among the first n events.
RECURSIVE NumClosedEnds(_)
NumClosedEnds(n) ==
    IF n = 0 THEN 0
    ELSE NumClosedEnds(n - 1)
            + (IF events[n].type = "End" /\ events[n].close THEN 1 ELSE 0)

\* The places of the Begin events before the k-th event.
BeginsBefore(k) == {j \in 1..(k - 1) : events[j].type = "Begin"}

\* The largest element of a non-empty set of numbers.
Largest(S) == CHOOSE x \in S : \A y \in S : y <= x

\* C7: the events hold as many End events with close = true as Close commands
\* were consumed, each with first = last, and equal to the point of the most
\* recent Begin emitted before it (when there is one).
C7_ClosedEnds ==
    /\ NumClosedEnds(Len(events)) = NumClose(iter)
    /\ \A k \in 1..Len(events) :
            (events[k].type = "End" /\ events[k].close) =>
                /\ events[k].first = events[k].last
                /\ BeginsBefore(k) # {} =>
                        events[k].first = events[Largest(BeginsBefore(k))].at

\* next() has returned None: the source is exhausted.
Exhausted == nones > 0

\* C8: after exhaustion, a sequence that ends mid-subpath (not empty, last
\* command not Close) has an End with close = false as its last event and
\* every Begin is followed by an End; an empty sequence has no event and one
\* that ends with Close has the End of that Close as its last event.
C8_FinalEnd ==
    Exhausted =>
        /\ (segments # <<>> /\ segments[Len(segments)].cmd # "Close") =>
                /\ events # <<>>
                /\ events[Len(events)].type = "End"
                /\ ~events[Len(events)].close
                /\ \A k \in 1..Len(events) :
                        events[k].type = "Begin" =>
                            \E j \in (k + 1)..Len(events) : events[j].type = "End"
        /\ segments = <<>> => events = <<>>
        /\ (segments # <<>> /\ segments[Len(segments)].cmd = "Close") =>
                /\ events[Len(events)].type = "End"
                /\ events[Len(events)].close

\* C9: between two Begin events there is an End event.
C9_NoBeginBegin ==
    \A k \in 1..Len(events), l \in 1..Len(events) :
        (k < l /\ events[k].type = "Begin" /\ events[l].type = "Begin") =>
            \E j \in (k + 1)..(l - 1) : events[j].type = "End"

\* The event a call of next() is about to return, before the scale is applied.
Untransformed == IF deferred # NoEvent THEN deferred ELSE Match(IterNext).return_event

\* C10: every event next() returns is the event it made passed through the
\* scale of the path; the scale is -1 on the axes whose absolute scale is
\* negative and 1 on the others, and next() never changes it.
C10_AllScaled ==
    [][constructed =>
        /\ conv_scale' = conv_scale
        /\ conv_scale = <<IF abs_transform[1] < 0 THEN -1 ELSE 1,
                          IF abs_transform[2] < 0 THEN -1 ELSE 1>>
        /\ events' # events =>
                events'[Len(events')] = transformed(Untransformed, conv_scale)]_vars

\* ------------------------------------------------- claims: the passes
\* The systems the plugin registers and the host's transform propagation.
TickSystems == {"add_origin_state", "propagate", "apply_origin", "svg_mesh_linker"}

\* A step of the system s.
Runs(s) == s \notin ran /\ ran' = AfterRun(s)

\* C14: in every tick each pass runs once, add_origin_state before
\* svg_mesh_linker and svg_mesh_linker before apply_origin: apply_origin never
\* runs before svg_mesh_linker within a tick.
C14_FixedOrder ==
    [][/\ ran' # ran => \E s \in TickSystems : Runs(s)
       /\ Runs("svg_mesh_linker") => "add_origin_state" \in ran
       /\ Runs("apply_origin") => {"add_origin_state", "svg_mesh_linker"} \subseteq ran]_vars

\* C15: add_origin_state gives the record with previous = TopLeft to exactly
\* the instances that have none, whatever their Origin, and leaves every
\* existing record as it is; no step removes the record of an instance.
C15_InitialRecord ==
    /\ [][Runs("add_origin_state") =>
            \A e \in Entities :
                origin_state'[e] =
                    IF alive[e] /\ origin_state[e] = NoState THEN "TopLeft"
                    ELSE origin_state[e]]_vars
    /\ [][\A e \in Entities : Tracking(e) => (alive'[e] /\ origin_state'[e] # NoState)]_vars

\* C15 happens: add_origin_state has just given the default record to an
\* instance whose Origin is Center, before apply_origin ever saw it.
C15_Witness ==
    \E e \in Entities :
        /\ alive[e]
        /\ origin[e] = "Center"
        /\ origin_state[e] = "TopLeft"
        /\ "add_origin_state" \in ran
        /\ taken[e] = NotVisited

\* C16: the tracked Origin of an instance changes only in a step of
\* apply_origin that visits it with a loaded image and a differing live
\* Origin, and becomes the live Origin; after apply_origin has visited an
\* instance with a loaded image the tracked Origin is the live Origin.
C16_TrackedOrigin ==
    /\ [][\A e \in Entities :
            (Tracking(e) /\ origin_state'[e] # origin_state[e]) =>
                /\ Runs("apply_origin")
                /\ Matched(e)
                /\ loaded[svg[e]]
                /\ origin_state[e] # origin[e]
                /\ origin_state'[e] = origin[e]]_vars
    /\ [][Runs("apply_origin") =>
            \A e \in Entities :
                (Matched(e) /\ loaded[svg[e]]) => origin_state'[e] = origin[e]]_vars

\* C16 happens: apply_origin set the tracked Origin to BottomLeft, and the
\* linker, running after it in the same tick, linked the mesh and left the
\* tracked Origin alone.
C16_Witness ==
    \E e \in Entities :
        /\ taken[e].branch = "origin"
        /\ origin[e] = "BottomLeft"
        /\ origin_state[e] = "BottomLeft"
        /\ ran = {}
        /\ changed[e].mesh
        /\ mesh[e] = svg[e]

\* C17: once the linker has run on an instance whose image is loaded and has
\* no event pending, the mesh slot of the instance holds the mesh of the image.
C17_MeshLinked ==
    \A e \in Entities :
        (alive[e] /\ loaded[svg[e]] /\ svg[e] \notin svg_events /\ ~changed[e].svg) =>
            mesh[e] = svg[e]

\* C18: when apply_origin visits an instance with a loaded image whose live
\* Origin is the tracked one, it adds compute_translation(Origin, scaled size)
\* to the world translation if the Transform changed and nothing otherwise,
\* and leaves the tracked Origin as it is.
C18_TransformBranch ==
    [][Runs("apply_origin") =>
        \A e \in Entities :
            (Matched(e) /\ loaded[svg[e]] /\ origin_state[e] = origin[e]) =>
                /\ origin_state'[e] = origin_state[e]
                /\ global_translation'[e] =
                        IF changed[e].transform
                        THEN Vec3Add(global_translation[e],
                                     compute_translation(origin[e], ScaledSize(e)))
                        ELSE global_translation[e]]_vars

\* C18 happens: apply_origin visited an instance for a change of its
\* Transform alone, with the Origin Center already applied, and the offset of
\* Center was added to the propagated (non-zero) translation.
C18_Witness ==
    \E e \in Entities :
        /\ taken[e] = [branch |-> "transform", origin |-> FALSE, transform |-> TRUE, mesh |-> FALSE]
        /\ origin[e] = "Center"
        /\ origin_state[e] = "Center"
        /\ translation[e] # Vec3Zero
        /\ global_translation[e] =
                Vec3Add(translation[e], OffsetTable("Center", ScaledSize(e)))

\* ------------------------------------- claims: the points of the events
\* C19: the event next() makes for a LineTo, QuadTo or CubicTo command carries
\* the points of the command, passed through the scale of the path.
C19_OwnPoints ==
    [][(constructed /\ deferred = NoEvent /\ events' # events) =>
        LET seg == IterNext
            ev == events'[Len(events')]
        IN /\ (seg.cmd = "LineTo") =>
                (ev.type = "Line" /\ ev.to = TransformPoint(seg.p, conv_scale))
           /\ (seg.cmd = "QuadTo") =>
                (/\ ev.type = "Quadratic"
                 /\ ev.ctrl = TransformPoint(seg.ctrl, conv_scale)
                 /\ ev.to = TransformPoint(seg.p, conv_scale))
           /\ (seg.cmd = "CubicTo") =>
                (/\ ev.type = "Cubic"
                 /\ ev.ctrl1 = TransformPoint(seg.ctrl1, conv_scale)
                 /\ ev.ctrl2 = TransformPoint(seg.ctrl2, conv_scale)
                 /\ ev.to = TransformPoint(seg.p, conv_scale))]_vars

\* The point an event ends at.
EndPoint(ev) == IF ev.type = "Begin" THEN ev.at ELSE ev.to

\* C20: for a command sequence that starts with MoveTo, every Line, Quadratic
\* or Cubic event starts at the point the event before it (a Begin or a
\* segment) ends at.
C20_Continuity ==
    (segments # <<>> /\ segments[1].cmd = "MoveTo") =>
        \A k \in 2..Len(events) :
            (/\ events[k].type \in {"Line", "Quadratic", "Cubic"}
             /\ events[k - 1].type # "End") =>
                events[k].from = EndPoint(events[k - 1])

\* -------------------------------- claims: the shape of the event stream
\* The places of the End events before the k-th event.
EndsBefore(k) == {j \in 1..(k - 1) : events[j].type = "End"}

\* C21: every Line, Quadratic or Cubic event stands after a Begin with no End
\* between that Begin and the event.
C21_WellFormed ==
    \A k \in 1..Len(events) :
        events[k].type \in {"Line", "Quadratic", "Cubic"} =>
            /\ BeginsBefore(k) # {}
            /\ \A j \in EndsBefore(k) : j < Largest(BeginsBefore(k))

\* The number of MoveTo commands among the first n commands.
RECURSIVE NumMoveTo(_)
NumMoveTo(n) ==
    IF n = 0 THEN 0
    ELSE NumMoveTo(n - 1) + (IF segments[n].cmd = "MoveTo" THEN 1 ELSE 0)

\* C22: a sequence of n commands with m MoveTo gives at most n + m + 1
\* events and an empty one gives none; once next() has returned None no call
\* returns an event.
C22_Finite ==
    /\ [](/\ Len(events) <= Len(segments) + NumMoveTo(Len(segments)) + 1
          /\ segments = <<>> => events = <<>>)
    /\ [][Exhausted => (events' = events /\ nones' > nones)]_vars

\* C22 happens: next() returned None twice after a sequence with a MoveTo in
\* mid-subpath that reached n + m + 1 events, the last the synthesized End.
C22_Witness ==
    /\ nones = 2
    /\ NumMoveTo(Len(segments)) > 0
    /\ Len(events) = Len(segments) + NumMoveTo(Len(segments)) + 1
    /\ events[Len(events)].type = "End"
    /\ ~events[Len(events)].close

\* C23: the deferred slot is filled only from empty, by a MoveTo that arrives
\* while a subpath is open, in the call that returns End{prev, first, false};
\* while it is full it holds the Begin at that MoveTo's point, needs_end is
\* false and prev = first = that point; the very next call returns it and
\* consumes no command.
C23_Deferred ==
    /\ [](deferred # NoEvent =>
            /\ iter >= 1
            /\ segments[iter].cmd = "MoveTo"
            /\ deferred = Begin(segments[iter].p)
            /\ ~needs_end
            /\ prev = segments[iter].p
            /\ first = segments[iter].p
            /\ events # <<>>
            /\ events[Len(events)].type = "End"
            /\ ~events[Len(events)].close)
    /\ [][(deferred = NoEvent /\ deferred' # NoEvent) =>
            /\ IterNext.cmd = "MoveTo"
            /\ needs_end
            /\ iter' = iter + 1
            /\ events' = Append(events, transformed(End(prev, first, FALSE), conv_scale))]_vars
    /\ [][deferred # NoEvent =>
            /\ deferred' = NoEvent
            /\ iter' = iter
            /\ events' = Append(events, deferred)]_vars

\* C23 happens: a MoveTo in mid-subpath gave an End with close = false and, by
\* the next call, the Begin at its point, with no command consumed between.
C23_Witness ==
    /\ deferred = NoEvent
    /\ iter >= 2
    /\ segments[iter].cmd = "MoveTo"
    /\ Len(events) >= 3
    /\ events[Len(events)] = Begin(segments[iter].p)
    /\ events[Len(events) - 1].type = "End"
    /\ ~events[Len(events) - 1].close
    /\ events[Len(events) - 2].type \in {"Line", "Quadratic", "Cubic"}

\* ------------------------------------------------ Svg::from_tree
\* No instance exists and no asset is loaded.
NoInstances ==
    /\ alive = [e \in Entities |-> FALSE]
    /\ svg = [e \in Entities |-> 1]
    /\ origin = [e \in Entities |-> DefaultOrigin]
    /\ origin_state = [e \in Entities |-> NoState]
    /\ translation = [e \in Entities |-> Vec3Zero]
    /\ scale = [e \in Entities |-> <<1, 1>>]
    /\ global_translation = [e \in Entities |-> Vec3Zero]
    /\ mesh = [e \in Entities |-> NoMesh]
    /\ material = [e \in Entities |-> 1]
    /\ changed = [e \in Entities |-> Unchanged]
    /\ loaded = [i \in Images |-> FALSE]
    /\ svg_events = {}
    /\ ran = {}
    /\ taken = [e \in Entities |-> NotVisited]

\* usvg::Node.  The nodes of a tree are kept in document order, each with its
\* depth below the root (1 for the children of the root); the children of a
\* node are the nodes one level deeper that follow it before the next node
\* at its own depth or above.  Node::Image and Node::Text are "Other".
GroupNode(d) == [kind |-> "Group", depth |-> d, fill |-> FALSE, stroke |-> FALSE]

OtherNode(d) == [kind |-> "Other", depth |-> d, fill |-> FALSE, stroke |-> FALSE]

\* A Path node; fill and stroke tell whether path.fill() and path.stroke()
\* are Some.
PathNode(d, f, s) == [kind |-> "Path", depth |-> d, fill |-> f, stroke |-> s]

NodesAt(d) == {GroupNode(d), OtherNode(d)} \cup {PathNode(d, f, s) : f \in BOOLEAN, s \in BOOLEAN}

\* The nodes that can follow the nodes q in document order: a child of the
\* last node when that is a Group, or a node at its depth or above.
Following(q) ==
    IF q = <<>> THEN NodesAt(1)
    ELSE LET n == q[Len(q)]
         IN UNION {NodesAt(d) : d \in 1..(IF n.kind = "Group" THEN n.depth + 1 ELSE n.depth)}

\* tree.root().transform(): its translation and scale.
RootTransforms == {[tx |-> 3, ty |-> -2, sx |-> 2, sy |-> 1]}

\* The depth of the k-th node; the root is node 0.
Depth(k) == IF k = 0 THEN 0 ELSE tree.nodes[k].depth

\* The place after the last descendant of the k-th node.
SubtreeEnd(k) ==
    LET later == {j \in (k + 1)..Len(tree.nodes) : Depth(j) <= Depth(k)}
    IN IF later = {} THEN Len(tree.nodes) + 1
       ELSE CHOOSE j \in later : \A i \in later : j <= i

\* group.children() iterated from the last child to the first.
children_reversed(k) ==
    LET kids == SelectSeq([i \in 1..Len(tree.nodes) |-> i],
                          LAMBDA j : k < j /\ j < SubtreeEnd(k) /\ Depth(j) = Depth(k) + 1)
    IN [i \in 1..Len(kids) |-> kids[Len(kids) + 1 - i]]

\* group.children(), tree.root().children(): the children in document order.
children(k) ==
    SelectSeq([i \in 1..Len(tree.nodes) |-> i],
              LAMBDA j : k < j /\ j < SubtreeEnd(k) /\ Depth(j) = Depth(k) + 1)

\* path.convert().collect() of the k-th node: the events of its data.
Collected(k) == [events_of |-> k]

\* Transform::from_matrix(..) of the abs_transform() of the k-th node.
AbsT(k) == [abs_transform_of |-> k]

\* The descriptor pushed for the fill of the k-th node.
FillDescriptor(k) ==
    [segments |-> Collected(k), abs_transform |-> AbsT(k),
     color |-> [paint |-> "fill", of |-> k], draw_type |-> "Fill"]

\* The descriptor pushed for the stroke of the k-th node.
StrokeDescriptor(k) ==
    [segments |-> Collected(k), abs_transform |-> AbsT(k),
     color |-> [paint |-> "stroke", of |-> k], draw_type |-> "Stroke"]

\* The Path arm with `else if let Some(stroke)`.
PathDescriptorsEither(k) ==
    IF tree.nodes[k].fill THEN <<FillDescriptor(k)>>
    ELSE IF tree.nodes[k].stroke THEN <<StrokeDescriptor(k)>>
    ELSE <<>>

\* The Path arm of parse_tree: the descriptors it pushes, in order.
PathDescriptors(k) ==
    (IF tree.nodes[k].fill THEN <<FillDescriptor(k)>> ELSE <<>>)
        \o (IF tree.nodes[k].stroke THEN <<StrokeDescriptor(k)>> ELSE <<>>)

RECURSIVE parse_tree(_, _)
RECURSIVE parse_children(_, _)

\* Svg::parse_tree(node, descriptors): the descriptors after the call.
parse_tree(k, descriptors) ==
    CASE tree.nodes[k].kind = "Group" -> parse_children(children(k), descriptors)
      [] tree.nodes[k].kind = "Path" -> descriptors \o PathDescriptors(k)
      [] OTHER -> descriptors

\* for node in ..children() { Self::parse_tree(node, descriptors) }
parse_children(ks, descriptors) ==
    IF ks = <<>> THEN descriptors
    ELSE parse_children(Tail(ks), parse_tree(Head(ks), descriptors))

\* The ViewBox from_tree computes.
ViewBoxOf(t) ==
    [x |-> -t.transform.tx, y |-> -t.transform.ty,
     w |-> t.size[1] * t.transform.sx, h |-> t.size[2] * t.transform.sy]

\* Svg::from_bytes has the document parsed: no node is read yet.
TreeInit ==
    /\ NoInstances
    /\ NoPath
    /\ tree \in {[size |-> <<100, 50>>, transform |-> tr, nodes |-> <<>>] : tr \in RootTransforms}
    /\ image = NoImage
    /\ buffer = NoBuffer
    /\ tessellated = NotTessellated

\* usvg::Tree::from_data: the parser adds the next node of the document.
from_data(c) ==
    /\ tree # NoTree
    /\ image = NoImage
    /\ Len(tree.nodes) < MaxNodes
    /\ c \in Following(tree.nodes)
    /\ tree' = [tree EXCEPT !.nodes = Append(@, c)]
    /\ UNCHANGED <<ecs_vars, path_vars, image, buffer, tessellated>>

\* Svg::from_tree
from_tree ==
    /\ tree # NoTree
    /\ image = NoImage
    /\ image' = [name |-> "", size |-> tree.size, view_box |-> ViewBoxOf(tree),
                 paths |-> parse_children(children(0), <<>>), mesh |-> NoMesh]
    /\ UNCHANGED <<ecs_vars, path_vars, tree, buffer, tessellated>>

TreeNext ==
    \/ \E d \in 1..MaxNodes : \E c \in NodesAt(d) : from_data(c)
    \/ from_tree

TreeSpec == TreeInit /\ [][TreeNext]_vars

\* --------------------------------------------- claims: tree extraction
\* The node a descriptor was made from.
PathOf(d) == d.segments.events_of

\* The places of the descriptors of the image made from the k-th node.
DescriptorsOf(k) == {i \in 1..Len(image.paths) : PathOf(image.paths[i]) = k}

\* The number of descriptors a Path node should yield.
Yield(n) == (IF n.fill THEN 1 ELSE 0) + (IF n.stroke THEN 1 ELSE 0)

\* The descriptors the first n nodes should yield together.
RECURSIVE TotalYield(_)
TotalYield(n) ==
    IF n = 0 THEN 0
    ELSE TotalYield(n - 1)
            + (IF tree.nodes[n].kind = "Path" THEN Yield(tree.nodes[n]) ELSE 0)

\* C11: the descriptors of the image come from the Path nodes only, every
\* Path node with a fill or a stroke has descriptors, and they stand in
\* document order (the order of a depth-first, pre-order walk) at every depth;
\* from_tree leaves the tree as it is.
C11_DocumentOrder ==
    /\ [](image # NoImage =>
            /\ \A i \in 1..Len(image.paths) :
                    /\ PathOf(image.paths[i]) \in 1..Len(tree.nodes)
                    /\ tree.nodes[PathOf(image.paths[i])].kind = "Path"
            /\ \A i \in 1..Len(image.paths), j \in 1..Len(image.paths) :
                    i < j => PathOf(image.paths[i]) <= PathOf(image.paths[j])
            /\ \A k \in 1..Len(tree.nodes) :
                    (tree.nodes[k].kind = "Path" /\ Yield(tree.nodes[k]) > 0) =>
                        DescriptorsOf(k) # {})
    /\ [][image' # image => tree' = tree]_vars

\* C11 happens: the tree G1{P1, P2}, G2{P3} with filled paths was extracted
\* into the descriptors of P1, P2 and P3 in this order.
C11_Witness ==
    /\ image # NoImage
    /\ tree.nodes = <<GroupNode(1), PathNode(2, TRUE, FALSE), PathNode(2, TRUE, FALSE),
                      GroupNode(1), PathNode(2, TRUE, FALSE)>>
    /\ image.paths = <<FillDescriptor(2), FillDescriptor(3), FillDescriptor(5)>>

\* C12: a Path node yields one descriptor for its fill and one for its
\* stroke, none without both; with both the Fill descriptor is immediately
\* followed by the Stroke descriptor of the same events and absolute
\* transform; the image has as many descriptors as its Path nodes yield.
C12_FillThenStroke ==
    image # NoImage =>
        /\ Len(image.paths) = TotalYield(Len(tree.nodes))
        /\ \A k \in 1..Len(tree.nodes) :
                tree.nodes[k].kind = "Path" =>
                    /\ Cardinality(DescriptorsOf(k)) = Yield(tree.nodes[k])
                    /\ \A i \in DescriptorsOf(k) :
                            image.paths[i].draw_type \in
                                (IF tree.nodes[k].fill THEN {"Fill"} ELSE {})
                                    \cup (IF tree.nodes[k].stroke THEN {"Stroke"} ELSE {})
                    /\ (tree.nodes[k].fill /\ tree.nodes[k].stroke) =>
                            \E i \in 1..(Len(image.paths) - 1) :
                                /\ DescriptorsOf(k) = {i, i + 1}
                                /\ image.paths[i].draw_type = "Fill"
                                /\ image.paths[i + 1].draw_type = "Stroke"
                                /\ image.paths[i].segments = image.paths[i + 1].segments
                                /\ image.paths[i].abs_transform = image.paths[i + 1].abs_transform

\* C12 happens: a path with fill and stroke inside a group, between a path
\* with neither and a path with a stroke only, gave Fill, Stroke, then the
\* Stroke of the last path.
C12_Witness ==
    /\ image # NoImage
    /\ tree.nodes = <<PathNode(1, FALSE, FALSE), GroupNode(1), PathNode(2, TRUE, TRUE),
                      PathNode(1, FALSE, TRUE)>>
    /\ image.paths = <<FillDescriptor(3), StrokeDescriptor(3), StrokeDescriptor(4)>>

\* ------------------------------------------------ Svg::tessellate
\* The event sequences of the descriptors, by the shape they draw: no
\* segment at all, a single straight line, a triangle.
Geometries == {"empty", "line", "triangle"}

Colors == {"red", "blue"}

DrawTypes == {"Fill", "Stroke"}

Descriptors ==
    {[segments |-> g, abs_transform |-> <<1, 1>>, color |-> c, draw_type |-> t] :
        g \in Geometries, c \in Colors, t \in DrawTypes}

\* The descriptor lists of at most n descriptors.
RECURSIVE DescriptorSeqs(_)
DescriptorSeqs(n) ==
    IF n = 0 THEN {<<>>}
    ELSE LET shorter == DescriptorSeqs(n - 1)
         IN shorter \cup {Append(q, d) : q \in {r \in shorter : Len(r) = n - 1},
                                          d \in Descriptors}

\* The tessellator of the descriptor's draw type returns an error: no
\* segments, or a straight line to fill.
Rejected(d) == d.segments = "empty" \/ (d.segments = "line" /\ d.draw_type = "Fill")

\* The number of vertices the tessellator emits for a descriptor it accepts.
NumVertices(d) ==
    CASE d.draw_type = "Fill" -> 3
      [] d.segments = "line" -> 4
      [] OTHER -> 6

\* The geometry the tessellator emits for a descriptor: its vertices, each
\* with the descriptor's color, and the triangles as indices from 0.
Tessellated(d) ==
    [vertices |-> [i \in 1..NumVertices(d) |->
                        [position |-> <<d.segments, d.draw_type, i>>, color |-> d.color]],
     indices |-> [i \in 1..(3 * (NumVertices(d) - 2)) |->
                        IF i % 3 = 1 THEN 0 ELSE ((i - 1) \div 3) + ((i - 1) % 3)]]

\* The geometry of a descriptor appended to the shared buffer: its indices
\* are offset by the number of vertices already there.
extend_one(buffers, t) ==
    [vertices |-> buffers.vertices \o t.vertices,
     indices |-> buffers.indices
                    \o [i \in 1..Len(t.indices) |-> t.indices[i] + Len(buffers.vertices)],
     skipped |-> buffers.skipped]

\* tessellation::generate_buffer: the buffer after the descriptors `paths`.
RECURSIVE generate_buffer(_, _)
generate_buffer(paths, buffers) ==
    IF paths = <<>> THEN buffers
    ELSE generate_buffer(Tail(paths),
                         IF Rejected(Head(paths)) THEN [buffers EXCEPT !.skipped = @ + 1]
                         ELSE extend_one(buffers, Tessellated(Head(paths))))

\* VertexBuffers::new()
EmptyBuffers == [vertices |-> <<>>, indices |-> <<>>, skipped |-> 0]

\* buffer.convert(): the Mesh, with the attributes of the vertices and the
\* indices.
ToMesh(b) ==
    [positions |-> [i \in 1..Len(b.vertices) |-> b.vertices[i].position],
     colors |-> [i \in 1..Len(b.vertices) |-> b.vertices[i].color],
     indices |-> b.indices]

\* A loaded image, not yet tessellated.
TessInit ==
    /\ NoInstances
    /\ NoPath
    /\ tree = NoTree
    /\ image \in {[name |-> "", size |-> <<100, 50>>,
                   view_box |-> [x |-> 0, y |-> 0, w |-> 100, h |-> 50],
                   paths |-> ps, mesh |-> NoMesh] : ps \in DescriptorSeqs(MaxDescriptors)}
    /\ buffer = NoBuffer
    /\ tessellated = NotTessellated

\* Svg::tessellate
tessellate ==
    /\ image # NoImage
    /\ tessellated = NotTessellated
    /\ buffer' = generate_buffer(image.paths, EmptyBuffers)
    /\ tessellated' = ToMesh(generate_buffer(image.paths, EmptyBuffers))
    /\ UNCHANGED <<ecs_vars, path_vars, tree, image>>

TessNext == tessellate

TessSpec == TessInit /\ [][TessNext]_vars

\* ------------------------------------------- claims: buffer generation
\* The descriptors among the first n the tessellators reject.
RECURSIVE NumRejected(_)
NumRejected(n) ==
    IF n = 0 THEN 0
    ELSE NumRejected(n - 1) + (IF Rejected(image.paths[n]) THEN 1 ELSE 0)

\* The vertices of the descriptors among the first n the tessellators accept.
RECURSIVE AcceptedVertices(_)
AcceptedVertices(n) ==
    IF n = 0 THEN <<>>
    ELSE AcceptedVertices(n - 1)
            \o (IF Rejected(image.paths[n]) THEN <<>> ELSE Tessellated(image.paths[n]).vertices)

\* The fields of a record.
Fields(r) == DOMAIN r

\* C13: what tessellate hands back holds the geometry of every descriptor the
\* tessellators accept, in order, whatever the others are, and the number of
\* descriptors that were skipped.
C13_SkipAndContinue ==
    tessellated # NotTessellated =>
        /\ tessellated.positions =
                [i \in 1..Len(AcceptedVertices(Len(image.paths))) |->
                    AcceptedVertices(Len(image.paths))[i].position]
        /\ "skipped" \in Fields(tessellated)
        /\ tessellated.skipped = NumRejected(Len(image.paths))

====
